---- MODULE Spec2Model ----
(***************************************************************************)
(* Dynamic programming for finite MDPs: assignment1/vi_and_pi.bak.py.      *)
(*                                                                         *)
(* p_to_tensor, policy_evaluation, policy_improvement, policy_iteration    *)
(* and value_iteration, and the __main__ driver that runs policy_iteration *)
(* and then value_iteration on one environment.                            *)
(*                                                                         *)
(* Floats are modelled as exact rationals <<numerator, denominator>> in    *)
(* lowest terms.  The inputs are chosen so that every number the program   *)
(* computes is a dyadic rational with a small denominator (exactly         *)
(* representable as an IEEE double), or, for gamma = 0.9 / tol = 1e-6, so  *)
(* that every comparison the program makes has the same outcome in double  *)
(* arithmetic as in exact arithmetic.                                      *)
(***************************************************************************)
EXTENDS Integers, Sequences, FiniteSets, TLC

\* ------------------------------------------------------------------ bounds
\* number of states nS and of actions nA of the environments explored
NS == 2
NA == 2
\* sweeps one convergence loop (one `while True`) may run in the model; the
\* loops of the program have no cap
MaxSweeps == 15

States  == 0 .. (NS - 1)
Actions == 0 .. (NA - 1)

\* ------------------------------------------------------------ float numbers
Abs(x) == IF x < 0 THEN -x ELSE x

RECURSIVE GCD(_, _)
GCD(a, b) == IF b = 0 THEN a ELSE GCD(b, a % b)

LCM(a, b) == (a \div GCD(a, b)) * b

\* the rational n/d (d > 0) in lowest terms
Rat(n, d) == LET g == GCD(Abs(n), d) IN <<n \div g, d \div g>>

Zero == <<0, 1>>
One  == <<1, 1>>
Half == <<1, 2>>

RAdd(x, y) ==
    LET L == LCM(x[2], y[2])
    IN  Rat(x[1] * (L \div x[2]) + y[1] * (L \div y[2]), L)

RNeg(x) == <<-x[1], x[2]>>

RSub(x, y) == RAdd(x, RNeg(y))

RMul(x, y) ==
    LET g1 == GCD(Abs(x[1]), y[2])
        g2 == GCD(Abs(y[1]), x[2])
    IN  IF x[1] = 0 \/ y[1] = 0 THEN Zero
        ELSE <<(x[1] \div g1) * (y[1] \div g2), (x[2] \div g2) * (y[2] \div g1)>>

RLt(x, y) ==
    LET L == LCM(x[2], y[2])
    IN  x[1] * (L \div x[2]) < y[1] * (L \div y[2])

RLe(x, y) == ~RLt(y, x)

RAbs(x) == <<Abs(x[1]), x[2]>>

RMax(x, y) == IF RLt(x, y) THEN y ELSE x

\* the largest element of a non-empty finite set of numbers
RMaxOf(S) == CHOOSE x \in S : \A y \in S : RLe(y, x)

\* np.zeros(nS)
zeros == [s \in States |-> Zero]

\* np.linalg.norm(V - V_new, ord=np.inf)
norm_inf(V, W) == RMaxOf({RAbs(RSub(V[s], W[s])) : s \in States})

\* ------------------------------------------------------------ environments
\* P[s][a] is a sequence of outcomes (probability, nextstate, reward, terminal)
Outcome(p, n, rw) == <<p, n, rw, FALSE>>

\* rewards of the environments explored
Rewards == {-1, 0, 1, 2}

\* the environment in which every state is absorbing and pays nothing
AbsorbingEnv == [s \in States |-> [a \in Actions |-> <<Outcome(One, s, Zero)>>]]

\* the states an action of state s may lead to: s itself or its successor
Successors(s) == {s, (s + 1) % NS}

\* one outcome of probability 1 per (state, action)
SingleOutcomes(s) ==
    {<<Outcome(One, n, <<rw, 1>>)>> : n \in Successors(s), rw \in Rewards}

\* two outcomes per (state, action): the agent slips and stays where it is
\* with probability 1/2, as in the Stochastic-4x4-FrozenLake-v0 of __main__
SlipOutcomes(s) ==
    {<<Outcome(Half, s, Zero), Outcome(Half, n, One)>> : n \in Successors(s) \ {s}}

EnvEdits ==
    UNION {{<<s, a, o>> : a \in Actions, o \in SingleOutcomes(s) \cup SlipOutcomes(s)} :
           s \in States}

ApplyEdit(env, e) == [env EXCEPT ![e[1]][e[2]] = e[3]]

\* the environments explored: AbsorbingEnv changed at no more than one
\* (state, action) pair, and at no more than two
Envs1 == {ApplyEdit(AbsorbingEnv, e) : e \in EnvEdits}
Envs  == {ApplyEdit(env, e) : env \in Envs1, e \in EnvEdits}

SingleOutcomeEnv(env) == \A s \in States, a \in Actions : Len(env[s][a]) = 1

Policies == [States -> Actions]

\* ------------------------------------------------------------- p_to_tensor
\* P_tensor[s][a] = P[s][a][0][0:4]; prob, s_next and r are its columns 0, 1, 2
p_to_tensor(env) ==
    LET P_tensor == [s \in States |-> [a \in Actions |-> SubSeq(env[s][a][1], 1, 4)]]
    IN  [prob   |-> [s \in States |-> [a \in Actions |-> P_tensor[s][a][1]]],
         s_next |-> [s \in States |-> [a \in Actions |-> P_tensor[s][a][2]]],
         r      |-> [s \in States |-> [a \in Actions |-> P_tensor[s][a][3]]]]

\* np.take(M, idx): M read as a flat row-major array of nS * nA entries
take(M, idx) == [s \in States |-> M[idx[s] \div NA][idx[s] % NA]]

\* take_indices = nA*np.arange(nS) + policy
take_indices(policy) == [s \in States |-> NA * s + policy[s]]

\* the sweep written in place: V[s] is overwritten state by state, so a state
\* reads the new value of every lower-numbered state
evaluation_sweep_in_place(T, policy, g, V) ==
    LET prob_pi   == take(T.prob, take_indices(policy))
        s_next_pi == take(T.s_next, take_indices(policy))
        r_pi      == take(T.r, take_indices(policy))
        W[s \in States] ==
            LET n == s_next_pi[s]
            IN  RMul(prob_pi[s], RAdd(r_pi[s], RMul(g, IF n < s THEN W[n] ELSE V[n])))
    IN  W

\* prob_pi * (r_pi + gamma * V[s_next_pi]), one synchronous sweep of
\* policy_evaluation
evaluation_sweep(T, policy, g, V) ==
    LET prob_pi   == take(T.prob, take_indices(policy))
        s_next_pi == take(T.s_next, take_indices(policy))
        r_pi      == take(T.r, take_indices(policy))
    IN  [s \in States |-> RMul(prob_pi[s], RAdd(r_pi[s], RMul(g, V[s_next_pi[s]])))]

\* Q = prob * (r + gamma * V[s_next])
q_values(T, g, V) ==
    [s \in States |-> [a \in Actions |->
        RMul(T.prob[s][a], RAdd(T.r[s][a], RMul(g, V[T.s_next[s][a]])))]]

\* the last index holding the largest entry
argmax_last(row) ==
    LET m == RMaxOf({row[a] : a \in Actions})
    IN  CHOOSE a \in Actions : row[a] = m /\ \A b \in Actions : b > a => row[b] # m

\* np.argmax(row): the first index holding the largest entry
argmax(row) ==
    LET m == RMaxOf({row[a] : a \in Actions})
    IN  CHOOSE a \in Actions : row[a] = m /\ \A b \in Actions : b < a => row[b] # m

\* new_policy = np.argmax(V_pi, axis=1); the previous policy is not read
policy_improvement(T, value_from_policy, policy, g) ==
    LET V_pi == q_values(T, g, value_from_policy)
    IN  [s \in States |-> argmax(V_pi[s])]

\* np.maximum(V_new, np.max(Q, axis=1), out=V_new) with V_new = np.zeros(nS)
value_sweep(T, g, V) ==
    LET Q == q_values(T, g, V)
    IN  [s \in States |-> RMax(Zero, RMaxOf({Q[s][a] : a \in Actions}))]

\* ------------------------------------------------------------------ inputs
Quarter == <<1, 4>>
Tight   == <<1, 2048>>

\* the scenario: gamma = 0.9, tol = 1e-6 on the two-state environment in
\* which action 1 of state 0 leads to the absorbing state 1 and pays 1
ScenarioGamma == <<9, 10>>
ScenarioTol   == <<1, 1000000>>
ScenarioEnv   == ApplyEdit(AbsorbingEnv, <<0, 1, <<Outcome(One, 1, One)>>>>)

\* gamma in [0, 1) and tol > 0
ValidConfiguration(g, t) == RLe(Zero, g) /\ RLt(g, One) /\ RLt(Zero, t)

\* (gamma, tol) outside the documented ranges: gamma = 1, and tol = 0
InvalidConfigurations == {<<One, Quarter>>, <<Half, Zero>>}

\* policies handed to policy_evaluation and to policy_improvement
InputPolicies ==
    {[s \in States |-> a] : a \in Actions}
        \cup {[s \in States |-> (s + d) % NA] : d \in {0, 1}}

\* value functions handed to policy_improvement
InputValues == [States -> {Zero, One}]

\* tol=1e-3, the default of policy_evaluation
policy_evaluation_default_tol == <<1, 1000>>

zero_policy == [s \in States |-> 0]

VARIABLES
    P, gamma, tol,          \* the arguments of the call
    entry,                  \* the function the caller runs
    arg_policy, arg_value,  \* policy / value_from_policy arguments
    pc,                     \* position in the running function
    tensor,                 \* (prob, s_next, r) of the last p_to_tensor call
    pe_policy, pe_tol, pe_V, pe_V_new, pe_ret,   \* frame of policy_evaluation
    pi_value_function, pi_policy, pi_V, pi_policy_new, pi_V_new,  \* policy_iteration
    vi_value_function, vi_policy, vi_V, vi_V_new,                 \* value_iteration
    V_pi, p_pi, V_vi, p_vi, \* what policy_iteration / value_iteration returned
    ret_value, ret_policy,  \* what policy_evaluation / policy_improvement returned
    sweeps,                 \* history: sweeps run by the current loop
    seen                    \* history: earlier current policies of policy_iteration

inputs == <<P, gamma, tol, entry, arg_policy, arg_value>>
pe_frame == <<pe_policy, pe_tol, pe_V, pe_V_new, pe_ret>>
pi_frame == <<pi_value_function, pi_policy, pi_V, pi_policy_new, pi_V_new>>
vi_frame == <<vi_value_function, vi_policy, vi_V, vi_V_new>>
returns == <<V_pi, p_pi, V_vi, p_vi, ret_value, ret_policy>>
vars == <<inputs, pc, tensor, pe_frame, pi_frame, vi_frame, returns, sweeps, seen>>

\* the calls explored: <<entry, P, gamma, tol, policy, value_from_policy>>
Calls ==
    {<<"policy_evaluation", env, Half, Quarter, pol, zeros>> :
        env \in Envs, pol \in InputPolicies}
    \cup {<<"policy_improvement", env, Half, Quarter, pol, V>> :
        env \in Envs, pol \in {[s \in States |-> 0], [s \in States |-> NA - 1]},
        V \in InputValues}
    \cup {<<"value_iteration", env, Half, Quarter, zero_policy, zeros>> : env \in Envs}
    \cup {<<"main", env, Half, Tight, zero_policy, zeros>> : env \in Envs}
    \cup {<<e, env, c[1], c[2], zero_policy, zeros>> :
        e \in {"policy_evaluation", "value_iteration", "main"}, env \in Envs1,
        c \in InvalidConfigurations}
    \cup {<<e, ScenarioEnv, ScenarioGamma, ScenarioTol, zero_policy, zeros>> :
        e \in {"value_iteration", "main"}}

Init ==
    /\ \E c \in Calls :
        /\ entry = c[1]
        /\ P = c[2]
        /\ gamma = c[3]
        /\ tol = c[4]
        /\ arg_policy = c[5]
        /\ arg_value = c[6]
    /\ pc = "start"
    /\ tensor = p_to_tensor(AbsorbingEnv)
    /\ pe_policy = zero_policy /\ pe_tol = Zero /\ pe_V = zeros /\ pe_V_new = zeros
    /\ pe_ret = "none"
    /\ pi_value_function = zeros /\ pi_policy = zero_policy /\ pi_V = zeros
    /\ pi_policy_new = zero_policy /\ pi_V_new = zeros
    /\ vi_value_function = zeros /\ vi_policy = zero_policy /\ vi_V = zeros
    /\ vi_V_new = zeros
    /\ V_pi = zeros /\ p_pi = zero_policy /\ V_vi = zeros /\ p_vi = zero_policy
    /\ ret_value = zeros /\ ret_policy = zero_policy
    /\ sweeps = 0
    /\ seen = {}

\* ------------------------------------------------------- policy_evaluation
\* lines 71-87: value_function = np.zeros(nS), p_to_tensor, V, V_new, the takes
policy_evaluation_begin(policy, t, return_to) ==
    /\ tensor' = p_to_tensor(P)
    /\ pe_policy' = policy
    /\ pe_tol' = t
    /\ pe_V' = zeros
    /\ pe_V_new' = zeros
    /\ pe_ret' = return_to
    /\ sweeps' = 0
    /\ pc' = "pe_loop"

call_policy_evaluation ==
    /\ pc = "start"
    /\ entry = "policy_evaluation"
    /\ policy_evaluation_begin(arg_policy, tol, "caller")
    /\ UNCHANGED <<inputs, pi_frame, vi_frame, returns, seen>>

\* lines 90-93, the loop goes round: V = V_new.copy()
policy_evaluation_sweep ==
    /\ pc = "pe_loop"
    /\ sweeps < MaxSweeps
    /\ LET V_new == evaluation_sweep(tensor, pe_policy, gamma, pe_V)
       IN  /\ ~RLt(norm_inf(pe_V, V_new), pe_tol)
           /\ pe_V_new' = V_new
           /\ pe_V' = V_new
    /\ sweeps' = sweeps + 1
    /\ UNCHANGED <<inputs, pc, tensor, pe_policy, pe_tol, pe_ret, pi_frame, vi_frame,
                   returns, seen>>

\* lines 90-92 and 95-99: the norm is below tol, break, return V_new
policy_evaluation_break ==
    /\ pc = "pe_loop"
    /\ sweeps < MaxSweeps
    /\ LET V_new == evaluation_sweep(tensor, pe_policy, gamma, pe_V)
       IN  /\ RLt(norm_inf(pe_V, V_new), pe_tol)
           /\ pe_V_new' = V_new
    /\ sweeps' = sweeps + 1
    /\ pc' = "pe_return"
    /\ UNCHANGED <<inputs, tensor, pe_policy, pe_tol, pe_V, pe_ret, pi_frame, vi_frame,
                   returns, seen>>

\* the caller of policy_evaluation receives value_function
policy_evaluation_return ==
    /\ pc = "pe_return"
    /\ pe_ret = "caller"
    /\ ret_value' = pe_V_new
    /\ pc' = "done"
    /\ UNCHANGED <<inputs, tensor, pe_frame, pi_frame, vi_frame, V_pi, p_pi, V_vi, p_vi,
                   ret_policy, sweeps, seen>>

\* ------------------------------------------------------ policy_improvement
call_policy_improvement ==
    /\ pc = "start"
    /\ entry = "policy_improvement"
    /\ tensor' = p_to_tensor(P)
    /\ ret_policy' = policy_improvement(tensor', arg_value, arg_policy, gamma)
    /\ pc' = "done"
    /\ UNCHANGED <<inputs, pe_frame, pi_frame, vi_frame, V_pi, p_pi, V_vi, p_vi,
                   ret_value, sweeps, seen>>

\* -------------------------------------------------------- policy_iteration
\* lines 163-170: value_function and policy are zeros; the first evaluation;
\* tol is not handed on, policy_evaluation runs with its default
call_policy_iteration ==
    /\ pc = "start"
    /\ entry = "main"
    /\ pi_value_function' = zeros
    /\ pi_policy' = zero_policy
    /\ policy_evaluation_begin(zero_policy, policy_evaluation_default_tol, "pi_first")
    /\ UNCHANGED <<inputs, pi_V, pi_policy_new, pi_V_new, vi_frame, returns, seen>>

\* line 170 receives V; lines 173-174 start the first round: policy_improvement,
\* then the evaluation of policy_new
policy_iteration_first_round ==
    /\ pc = "pe_return"
    /\ pe_ret = "pi_first"
    /\ pi_V' = pe_V_new
    /\ pi_policy_new' = policy_improvement(p_to_tensor(P), pi_V', pi_policy, gamma)
    /\ policy_evaluation_begin(pi_policy_new', policy_evaluation_default_tol, "pi_round")
    /\ UNCHANGED <<inputs, pi_value_function, pi_policy, pi_V_new, vi_frame, returns,
                   seen>>

\* lines 174-179 and 173-174: V_new received, the policy changed: V and policy
\* are replaced and the next round starts
policy_iteration_next_round ==
    /\ pc = "pe_return"
    /\ pe_ret = "pi_round"
    /\ pi_V_new' = pe_V_new
    /\ pi_policy # pi_policy_new
    /\ pi_V' = pi_V_new'
    /\ pi_policy' = pi_policy_new
    /\ seen' = seen \cup {pi_policy}
    /\ pi_policy_new' = policy_improvement(p_to_tensor(P), pi_V', pi_policy', gamma)
    /\ policy_evaluation_begin(pi_policy_new', policy_evaluation_default_tol, "pi_round")
    /\ UNCHANGED <<inputs, pi_value_function, vi_frame, returns>>

\* lines 174-176 and 183: V_new received, np.array_equal(policy, policy_new):
\* break, return value_function, policy
policy_iteration_stable ==
    /\ pc = "pe_return"
    /\ pe_ret = "pi_round"
    /\ pi_V_new' = pe_V_new
    /\ pi_policy = pi_policy_new
    /\ V_pi' = pi_value_function
    /\ p_pi' = pi_policy
    /\ pc' = "pi_returned"
    /\ UNCHANGED <<inputs, tensor, pe_frame, pi_value_function, pi_policy, pi_V,
                   pi_policy_new, vi_frame, V_vi, p_vi, ret_value, ret_policy, sweeps,
                   seen>>

\* --------------------------------------------------------- value_iteration
\* lines 203-212; __main__ calls value_iteration once policy_iteration returned
call_value_iteration ==
    /\ \/ pc = "start" /\ entry = "value_iteration"
       \/ pc = "pi_returned" /\ entry = "main"
    /\ vi_value_function' = zeros
    /\ vi_policy' = zero_policy
    /\ tensor' = p_to_tensor(P)
    /\ vi_V' = zeros
    /\ sweeps' = 0
    /\ pc' = "vi_loop"
    /\ UNCHANGED <<inputs, pe_frame, pi_frame, vi_V_new, returns, seen>>

\* lines 214-219, the loop goes round: V = V_new.copy()
value_iteration_sweep ==
    /\ pc = "vi_loop"
    /\ sweeps < MaxSweeps
    /\ LET V_new == value_sweep(tensor, gamma, vi_V)
       IN  /\ ~RLt(norm_inf(vi_V, V_new), tol)
           /\ vi_V_new' = V_new
           /\ vi_V' = V_new
    /\ sweeps' = sweeps + 1
    /\ UNCHANGED <<inputs, pc, tensor, pe_frame, pi_frame, vi_value_function, vi_policy,
                   returns, seen>>

\* lines 214-218, 220 and 224: the norm is below tol, break, policy_improvement
\* on V_new, return value_function, policy
value_iteration_break ==
    /\ pc = "vi_loop"
    /\ sweeps < MaxSweeps
    /\ LET V_new == value_sweep(tensor, gamma, vi_V)
       IN  /\ RLt(norm_inf(vi_V, V_new), tol)
           /\ vi_V_new' = V_new
    /\ sweeps' = sweeps + 1
    /\ vi_policy' = policy_improvement(p_to_tensor(P), vi_V_new', vi_policy, gamma)
    /\ V_vi' = vi_value_function
    /\ p_vi' = vi_policy'
    /\ pc' = "done"
    /\ UNCHANGED <<inputs, tensor, pe_frame, pi_frame, vi_value_function, vi_V, V_pi,
                   p_pi, ret_value, ret_policy, seen>>

Next ==
    \/ call_policy_evaluation
    \/ policy_evaluation_sweep
    \/ policy_evaluation_break
    \/ policy_evaluation_return
    \/ call_policy_improvement
    \/ call_policy_iteration
    \/ policy_iteration_first_round
    \/ policy_iteration_next_round
    \/ policy_iteration_stable
    \/ call_value_iteration
    \/ value_iteration_sweep
    \/ value_iteration_break

Spec == Init /\ [][Next]_vars

\* the loops of a call with a valid configuration never reach the cap of the
\* model, short of policy_iteration going round for ever
CapNotReached ==
    ValidConfiguration(gamma, tol) /\ pc \in {"pe_loop", "vi_loop"} => sweeps < MaxSweeps

\* ================================================================== claims
\* the dense arrays of the transition model adapter
prob_of(s, a)   == tensor.prob[s][a]
next_of(s, a)   == tensor.s_next[s][a]
reward_of(s, a) == tensor.r[s][a]

\* prob(s,a) * (reward(s,a) + gamma * V(next_state(s,a)))
OneStepValue(V, s, a) ==
    RMul(prob_of(s, a), RAdd(reward_of(s, a), RMul(gamma, V[next_of(s, a)])))

\* policy_iteration has returned to __main__
PolicyIterationReturned == entry = "main" /\ pc \in {"pi_returned", "vi_loop", "done"}

\* value_iteration has returned
ValueIterationReturned == entry \in {"value_iteration", "main"} /\ pc = "done"

\* C1: when policy_iteration returns, the value function it returns is V, the
\* policy_evaluation result for the policy it returns.
C1_ReturnsEvaluatedValue ==
    PolicyIterationReturned => V_pi = pi_V /\ p_pi = pi_policy

\* C2: on the scenario environment with gamma = 0.9 and tol = 1e-6,
\* value_iteration returns, within three sweeps, policy[0] = 1 and a value
\* function whose V[0] is within tol of 1, the one-step value of action 1.
C2_ScenarioResult ==
    ( /\ ValueIterationReturned
      /\ P = ScenarioEnv /\ gamma = ScenarioGamma /\ tol = ScenarioTol )
    => /\ p_vi[0] = 1
       /\ RLt(RAbs(RSub(V_vi[0], One)), tol)
       /\ sweeps <= 3

\* C3: in value_iteration on a single-outcome environment, every sweep computes
\* V_{k+1}(s) = max_a prob(s,a) * (reward(s,a) + gamma * V_k(next_state(s,a))),
\* and nothing else enters the maximum.
C3_SweepIsBellmanMax ==
    [][ ( /\ pc = "vi_loop"
          /\ sweeps' = sweeps + 1
          /\ SingleOutcomeEnv(P) )
        => \A s \in States :
             vi_V_new'[s] = RMaxOf({OneStepValue(vi_V, s, a) : a \in Actions}) ]_vars

\* the probability mass and the expected reward of all outcomes of (s, a)
RECURSIVE RSum(_)
RSum(xs) == IF xs = <<>> THEN Zero ELSE RAdd(Head(xs), RSum(Tail(xs)))

TotalProbability(s, a) == RSum([i \in 1 .. Len(P[s][a]) |-> P[s][a][i][1]])
ExpectedReward(s, a) ==
    RSum([i \in 1 .. Len(P[s][a]) |-> RMul(P[s][a][i][1], P[s][a][i][3])])

\* C4: for an environment in which some (state, action) has more than one
\* outcome, the adapter never hands out dense arrays built from the first
\* outcome alone: the arrays it hands out keep the whole probability mass and
\* the probability-weighted reward of every such pair.
C4_MultiOutcomeAggregated ==
    pc # "start" =>
        \A s \in States, a \in Actions :
            Len(P[s][a]) > 1 =>
                /\ prob_of(s, a) = TotalProbability(s, a)
                /\ reward_of(s, a) = ExpectedReward(s, a)

\* C5: on a single-outcome environment with gamma in [0,1) and tol > 0 the
\* current policy of policy_iteration never returns to a policy it has left:
\* no cycle of current policies.
C5_NoPolicyCycle ==
    ( /\ entry = "main"
      /\ SingleOutcomeEnv(P)
      /\ ValidConfiguration(gamma, tol) )
    => pi_policy \notin seen

\* C6: with gamma outside [0,1) or tol <= 0, policy_evaluation,
\* policy_iteration and value_iteration run no sweep and return nothing.
C6_InvalidConfigurationRejected ==
    ( /\ entry \in {"policy_evaluation", "value_iteration", "main"}
      /\ ~ValidConfiguration(gamma, tol) )
    => sweeps = 0 /\ pc \notin {"pe_return", "pi_returned", "done"}

\* C7: every policy_evaluation inside policy_iteration stops when the largest
\* change of its last sweep is below the tol handed to policy_iteration.
C7_InnerEvaluationUsesCallerTol ==
    ( /\ entry = "main"
      /\ pc = "pe_return"
      /\ ValidConfiguration(gamma, tol) )
    => RLt(norm_inf(pe_V, pe_V_new), tol)

\* a is the lowest-indexed action among those maximising the one-step value at V
LowestMaximiser(V, s, a) ==
    /\ \A b \in Actions : RLe(OneStepValue(V, s, b), OneStepValue(V, s, a))
    /\ \A b \in Actions : b < a => RLt(OneStepValue(V, s, b), OneStepValue(V, s, a))

\* C8: policy_improvement returns for every state the lowest-indexed action
\* among those maximising prob * (reward + gamma * V[next_state]), whatever the
\* previous policy it is handed: when called by itself, in every round of
\* policy_iteration, and at the end of value_iteration.
C8_LowestIndexedMaximiser ==
    /\ entry = "policy_improvement" /\ pc = "done"
         => \A s \in States : LowestMaximiser(arg_value, s, ret_policy[s])
    /\ entry = "main" /\ pc \in {"pe_loop", "pe_return"} /\ pe_ret = "pi_round"
         => \A s \in States : LowestMaximiser(pi_V, s, pi_policy_new[s])
    /\ ValueIterationReturned
         => \A s \in States : LowestMaximiser(vi_V_new, s, p_vi[s])

\* a state where two actions tie for the maximum, the lower one was returned,
\* and the previous policy named another action; another state where the
\* returned action is not action 0
C8_Witness ==
    /\ entry = "policy_improvement" /\ pc = "done"
    /\ \E s \in States :
        /\ \E a, b \in Actions :
              /\ a < b
              /\ ret_policy[s] = a
              /\ OneStepValue(arg_value, s, a) = OneStepValue(arg_value, s, b)
        /\ arg_policy[s] # ret_policy[s]
    /\ \E s \in States : ret_policy[s] # 0

\* x / y for y > 0
RDiv(x, y) == RMul(x, <<y[2], y[1]>>)

\* the value of state s under policy pol is A + B * (the value of state t),
\* <<A, B, t>>, t being the state reached from s after k steps of pol
RECURSIVE AlongPolicy(_, _, _)
AlongPolicy(pol, s, k) ==
    IF k = 0 THEN <<Zero, One, s>>
    ELSE LET before == AlongPolicy(pol, s, k - 1)
             t      == before[3]
             a      == pol[t]
         IN  <<RAdd(before[1], RMul(before[2], RMul(prob_of(t, a), reward_of(t, a)))),
               RMul(before[2], RMul(prob_of(t, a), gamma)),
               next_of(t, a)>>

\* the exact value of a state x that pol leads back to x: x = A + B * x
ValueOnCycle(pol, x) ==
    LET L    == CHOOSE k \in 1 .. NS :
                    /\ AlongPolicy(pol, x, k)[3] = x
                    /\ \A j \in 1 .. (k - 1) : AlongPolicy(pol, x, j)[3] # x
        back == AlongPolicy(pol, x, L)
    IN  RDiv(back[1], RSub(One, back[2]))

\* the exact value of state s under policy pol (gamma < 1, one outcome per pair)
PolicyValue(pol, s) ==
    LET far == AlongPolicy(pol, s, NS)
    IN  RAdd(far[1], RMul(far[2], ValueOnCycle(pol, far[3])))

\* the optimal value function: the best any deterministic policy achieves
OptimalValue == [s \in States |-> RMaxOf({PolicyValue(pol, s) : pol \in Policies})]

\* the actions of state s that are optimal
OptimalActions(s) ==
    LET Vstar == OptimalValue
        best  == RMaxOf({OneStepValue(Vstar, s, a) : a \in Actions})
    IN  {a \in Actions : OneStepValue(Vstar, s, a) = best}

\* C9: on a single-outcome environment with gamma in [0,1), policy_iteration
\* and value_iteration run to a tight tolerance return policies that agree at
\* every state whose optimal action is unique.
C9_AlgorithmsAgree ==
    ( /\ entry = "main" /\ pc = "done"
      /\ SingleOutcomeEnv(P)
      /\ ValidConfiguration(gamma, tol)
      /\ RLe(tol, policy_evaluation_default_tol) )
    => \A s \in States : Cardinality(OptimalActions(s)) = 1 => p_pi[s] = p_vi[s]

\* V_0 .. V_k of the synchronous iteration for the policy being evaluated
RECURSIVE SyncIterates(_)
SyncIterates(k) ==
    IF k = 0 THEN <<zeros>>
    ELSE LET before == SyncIterates(k - 1)
             V_k    == before[Len(before)]
         IN  Append(before, [s \in States |-> OneStepValue(V_k, s, pe_policy[s])])

\* the k-th sweep changed no entry by tol or more (its[j + 1] is V_j)
Converged(its, k) == RLt(norm_inf(its[k], its[k + 1]), pe_tol)

\* C10: policy_evaluation starts from zeros, every sweep computes V_{k+1} from
\* V_k alone, it returns V_{k+1} for the first k with max|V_{k+1} - V_k| < tol,
\* and the policy it evaluates is the one it was given.
C10_SynchronousEvaluation ==
    LET its == SyncIterates(sweeps)
    IN  /\ pc = "pe_loop" =>
            /\ pe_V = its[sweeps + 1]
            /\ \A k \in 1 .. sweeps : ~Converged(its, k)
        /\ pc = "pe_return" \/ (entry = "policy_evaluation" /\ pc = "done") =>
            /\ sweeps >= 1
            /\ pe_V_new = its[sweeps + 1]
            /\ Converged(its, sweeps)
            /\ \A k \in 1 .. (sweeps - 1) : ~Converged(its, k)
        /\ entry = "policy_evaluation" /\ pc = "done" =>
            /\ ret_value = its[sweeps + 1]
            /\ pe_policy = arg_policy

\* an evaluation that returned after three sweeps or more, for a policy that
\* leads some state to another state of non-zero value
C10_Witness ==
    /\ entry = "policy_evaluation" /\ pc = "done"
    /\ sweeps >= 3
    /\ \E s \in States :
        /\ next_of(s, arg_policy[s]) # s
        /\ ret_value[next_of(s, arg_policy[s])] # Zero
        /\ ret_value[s] # Zero

====
